---- MODULE Spec2Model ----
(***************************************************************************)
(* Model of particles/generators.py: RFBucket (feasibility check, matching *)
(* iteration, rejection sampling on the interpolated grid),                *)
(* StationaryExponential and GaussianZ with an acceptance function.        *)
(*                                                                         *)
(* Lengths (z, sigma, zS, eps) are fixed-point integers in units of        *)
(* 0.25e-4 m, so that the tolerance 1e-4 is 4 units and eps = 1 is 40000.  *)
(* Every RMS length the providers below produce is an even number of       *)
(* units, which makes 0.5 * eps exact.                                     *)
(***************************************************************************)
EXTENDS Integers, Sequences, FiniteSets, TLC

VARIABLES
    prov,       \* the rfsystem / particles the generator was built with (inputs)
    pc,         \* position inside RFBucket.generate
    psi,        \* the StationaryExponential instance: [H0, Hmax]
    warned,     \* per quadrature scheme: was the too-long warning printed
    zSmax,      \* per quadrature scheme: the maximum rms length printed
    counter, z0, eps, zH, zS,   \* locals of _set_target_std
    zHused,     \* history: the amplitude whose H0 the last variance used
    H0tested,   \* history: psi.H0 during the last variance evaluation
    wrongHmaxEvals, \* history: variance evaluations made with Hmax # H at the extrema
    hmaxWrites, \* history: assignments to psi.Hmax after construction
    x, y, i, j, \* locals of generate
    HH,         \* density on the grid nodes the proposals can land on
    acc,        \* history: the (u, v, s) of each stored proposal
    passed,     \* history: number of proposals with s < psi_interp(u, v)
    particles,  \* the caller's particle object: [z, dp, psi]
    gen, gpc, beam, gi   \* GaussianZ: the generator, generate / _redistribute

rfvars == <<prov, pc, psi, warned, zSmax, counter, z0, eps, zH, zS, zHused,
            H0tested, wrongHmaxEvals, hmaxWrites, x, y, i, j, HH, acc, passed,
            particles>>
gzvars == <<gen, gpc, beam, gi>>
vars == <<rfvars, gzvars>>

-----------------------------------------------------------------------------
(* Bounds of the exploration *)
MaxN == 2          \* n_macroparticles ranges over 0..MaxN
MaxRejects == 2    \* rejected proposals explored per run
MaxBeam == 2       \* macroparticles of the GaussianZ beam

(* Program constants *)
Tol == 4           \* 1e-4
MaxIter == 100     \* counter > 100
EpsInit == 40000   \* eps = 1

-----------------------------------------------------------------------------
(* IEEE arithmetic as far as the code relies on it: NaN is a value that    *)
(* propagates through - and * and makes every ordered comparison false.    *)
NaN == -1000000000

IsNaN(a) == a = NaN
Sub(a, b) == IF IsNaN(a) \/ IsNaN(b) THEN NaN ELSE a - b
HalfOf(a) == IF IsNaN(a) THEN NaN ELSE a \div 2
AbsF(a) == IF IsNaN(a) THEN NaN ELSE IF a < 0 THEN -a ELSE a
Gt(a, b) == ~IsNaN(a) /\ ~IsNaN(b) /\ a > b
Lt(a, b) == ~IsNaN(a) /\ ~IsNaN(b) /\ a < b

RECURSIVE SqrtSearch(_, _, _)
SqrtSearch(v, lo, hi) ==
    IF lo = hi THEN lo
    ELSE LET mid == (lo + hi + 1) \div 2
         IN IF mid * mid <= v THEN SqrtSearch(v, mid, hi)
                              ELSE SqrtSearch(v, lo, mid - 1)

\* np.sqrt(V/Q): 0/0 is nan
SqrtRatio(V, Q) ==
    IF IsNaN(V) \/ IsNaN(Q) THEN NaN
    ELSE IF Q = 0 THEN NaN
    ELSE SqrtSearch(V \div Q, 0, 46340)

-----------------------------------------------------------------------------
(* The Hamiltonian provider (rfsystem): an external collaborator, so an    *)
(* input.  Its bucket is centred on zc; H is a well H = 4000 at the centre *)
(* and 0 on the separatrix; H0(z) grows with the square of the amplitude.  *)
Schemes == {"quad", "cumtrapz", "romberg"}

\* A narrow provider has H > 0 only on a sliver around the centre that lies
\* between two nodes of the sampling grid (its box is shifted by half a cell).
hamiltonian(p, z, dp) ==
    IF p.narrow
    THEN IF AbsF(z - p.zc) < 100 /\ dp = 0 THEN 4000 ELSE -1000
    ELSE 4000 - ((z - p.zc) * (z - p.zc)) \div 64000 - 1000 * dp * dp
z_extrema(p) == <<p.zc - 16000, p.zc, p.zc + 16000>>
z_sep(p) ==
    IF p.narrow THEN <<p.zc - 16125, p.zc + 15875>>
    ELSE <<p.zc - 16000, p.zc + 16000>>
p_sep(p) == 2
circumference(p) == 40000
H0func(p, z) == IF IsNaN(z) THEN NaN ELSE (z * z) \div 4000

Max2(a, b) == IF a >= b THEN a ELSE b
Clamp(v) == IF v < 0 THEN 0 ELSE IF v > 8000 THEN 8000 ELSE v

\* The rms length of psi(.; H0) inside the provider's bucket, as the
\* quadrature sums reproduce it.  At H0(circumference) each scheme has its own
\* value p.zsmax[scheme]; elsewhere the length follows the provider's map.
RmsOf(p, scheme, h0) ==
    IF h0 = H0func(p, circumference(p)) THEN p.zsmax[scheme]
    ELSE IF h0 <= p.thr THEN p.sigma + p.lo
    ELSE Clamp(p.sigma + p.off
               + 2 * ((p.num * (h0 - H0func(p, p.sigma))) \div 4))

-----------------------------------------------------------------------------
(* StationaryExponential *)

\* __init__: H0 = 1, Hmax = H(0, 0)
StationaryExponential(p) == [H0 |-> 1, Hmax |-> hamiltonian(p, 0, 0)]

\* round(1000 * exp(q/4)) for q in -16..16, saturating outside
ExpTable ==
    <<18, 24, 30, 39, 50, 64, 82, 105, 135, 174, 223, 287, 368, 472, 607, 779,
      1000, 1284, 1649, 2117, 2718, 3490, 4482, 5755, 7389, 9488, 12182,
      15643, 20086, 25790, 33115, 42521, 54598>>
ExpQ(q) == ExpTable[(IF q < -16 THEN -16 ELSE IF q > 16 THEN 16 ELSE q) + 17]

\* h / h0 in quarters, for h0 > 0
Quarters(h, h0) == (4 * h) \div h0

\* function(z, dp): (exp(H/H0) - 1) / (exp(Hmax/H0) - 1) as a fraction
\* num/den of thousandths, or nan.  A zero H0 or a zero denominator follows
\* IEEE: x/0 is +-inf for x # 0 and nan for x = 0, inf/inf is nan.
PsiFunction(s, h) ==
    IF IsNaN(s.H0) THEN [nan |-> TRUE, num |-> 0, den |-> 1]
    ELSE IF s.H0 <= 0 THEN
        IF h < 0 /\ s.Hmax > 0 THEN [nan |-> FALSE, num |-> 0, den |-> 1]
        ELSE IF h < 0 /\ s.Hmax < 0 THEN [nan |-> FALSE, num |-> 1, den |-> 1]
        ELSE [nan |-> TRUE, num |-> 0, den |-> 1]
    ELSE LET n == ExpQ(Quarters(h, s.H0)) - 1000
             d == ExpQ(Quarters(s.Hmax, s.H0)) - 1000
         IN IF d = 0 /\ n = 0 THEN [nan |-> TRUE, num |-> 0, den |-> 1]
            ELSE IF d = 0 THEN [nan |-> FALSE, num |-> n, den |-> 0]
            ELSE [nan |-> FALSE, num |-> n, den |-> d]

\* s < f for s = k/4 and f a PsiFunction value
BelowDensity(k, f) ==
    /\ ~f.nan
    /\ IF f.den = 0 THEN f.num > 0
       ELSE IF f.den > 0 THEN k * f.den < 4 * f.num
       ELSE k * f.den > 4 * f.num

-----------------------------------------------------------------------------
(* VarianceEstimator: the three quadrature schemes of RFBucket *)

\* The sums Q and V a scheme accumulates.  A separatrix that is 0 everywhere
\* makes every y-grid np.linspace(0, 0, 257), so every slice integrates to 0.
\* psi.function divides by exp(Hmax/H0) - 1: with Hmax = 0 (or H0 nan) the
\* integrand is inf or nan and so are the sums.
Integrals(p, scheme, s) ==
    IF IsNaN(s.H0) \/ s.Hmax = 0 THEN [Q |-> NaN, V |-> NaN]
    ELSE IF p.zero_sep THEN [Q |-> 0, V |-> 0]
    ELSE LET rms == RmsOf(p, scheme, s.H0)
         IN [Q |-> 3, V |-> 3 * rms * rms]

compute_std_quad(p, s) ==
    LET QV == Integrals(p, "quad", s) IN SqrtRatio(QV.V, QV.Q)
compute_std_cumtrapz(p, s) ==
    LET QV == Integrals(p, "cumtrapz", s) IN SqrtRatio(QV.V, QV.Q)
compute_std_romberg(p, s) ==
    LET QV == Integrals(p, "romberg", s) IN SqrtRatio(QV.V, QV.Q)
\* __init__: self._compute_std = self._compute_std_cumtrapz
compute_std(p, s) == compute_std_cumtrapz(p, s)

-----------------------------------------------------------------------------
(* Inputs *)
Levels == 0..2          \* np.random.random() in quarters: 0, 1/4, 1/2

AllWide == [sc \in Schemes |-> 4211]

BaseProvider ==
    [sigma |-> 4000, zc |-> 8000, n |-> 1, zero_sep |-> FALSE, narrow |-> FALSE,
     num |-> 2, off |-> 0, thr |-> 0, lo |-> 0, zsmax |-> AllWide]

\* the matching maps: slopes and offsets, maps that reach the target only
\* after a long drift, and the separatrix that is 0 everywhere
MatcherProviders ==
    {[BaseProvider EXCEPT !.num = nm, !.off = of] :
        nm \in {0, 1, 2, 4, 8}, of \in {-6, 0, 2, 4, 6, 40}}
    \cup {[BaseProvider EXCEPT !.num = 0, !.off = 6, !.thr = t, !.lo = l] :
        t \in {3422, 3428}, l \in {0, 2, 4}}
    \cup {[BaseProvider EXCEPT !.zero_sep = TRUE]}

\* the feasibility check: each scheme just below or just above sigma / 0.95
FeasibilityProviders ==
    {[BaseProvider EXCEPT !.zsmax = f, !.n = 0, !.off = of] :
        f \in [Schemes -> {4210, 4211}], of \in {0, 2}}

\* the sampler: bucket centres, particle counts, and the narrow bucket
SamplerProviders ==
    {[BaseProvider EXCEPT !.zc = c, !.n = m, !.narrow = nw] :
        c \in {0, 8000, 16000}, m \in 0..MaxN, nw \in BOOLEAN}

Providers == MatcherProviders \cup FeasibilityProviders \cup SamplerProviders

Zeros(n) == [k \in 1..n |-> 0]
PrevCoords(n) == [k \in 1..n |-> 7]
NoPsi == [H0 |-> 0, Hmax |-> 0]
PrevParticles(p) == [z |-> PrevCoords(p.n), dp |-> PrevCoords(p.n), psi |-> NoPsi]

\* the grid nodes a proposal can land on
ProposalU(p, k) == z_sep(p)[1] + ((z_sep(p)[2] - z_sep(p)[1]) * k) \div 4
ProposalV(p, k) == -p_sep(p) + ((p_sep(p) - (-p_sep(p))) * k) \div 4
Nodes(p) == {<<ProposalU(p, ku), ProposalV(p, kv)>> : ku \in Levels, kv \in Levels}

NoGenerator == [sigma_z |-> 0, sigma_dp |-> 0, is_accepted |-> "None"]
GZIdle ==
    /\ gen = NoGenerator
    /\ gpc = "idle"
    /\ beam = [n |-> 0, z |-> <<>>, dp |-> <<>>]
    /\ gi = 0

RFState(p, at) ==
    /\ prov = p
    /\ pc = at
    /\ psi = StationaryExponential(p)
    /\ warned = [sc \in Schemes |-> FALSE]
    /\ zSmax = [sc \in Schemes |-> 0]
    /\ counter = 0 /\ z0 = 0 /\ eps = 0 /\ zH = 0 /\ zS = 0
    /\ zHused = 0 /\ H0tested = 0
    /\ wrongHmaxEvals = 0 /\ hmaxWrites = 0
    /\ x = <<>> /\ y = <<>> /\ i = 0 /\ j = 0
    /\ HH = <<>>
    /\ acc = <<>> /\ passed = 0
    /\ particles = PrevParticles(p)

\* generate is entered with a fresh StationaryExponential(self.hamiltonian)
Init == (\E p \in Providers : RFState(p, "test_quad")) /\ GZIdle

-----------------------------------------------------------------------------
(* RFBucket._test_maximum_std *)

\* np.amax(self.hamiltonian(self.z_extrema, 0))
HmaxAtExtrema(p) ==
    LET ze == z_extrema(p)
    IN Max2(hamiltonian(p, ze[1], 0),
            Max2(hamiltonian(p, ze[2], 0), hamiltonian(p, ze[3], 0)))

\* history: one more evaluation of the density s; it counts when s.Hmax is
\* not the Hamiltonian's value at the bucket extrema
EvalCount(s) ==
    IF s.Hmax # HmaxAtExtrema(prov) THEN wrongHmaxEvals + 1 ELSE wrongHmaxEvals

\* the comparison without the 0.95 margin
TooLong_NoMargin(sigma, zs) == ~IsNaN(zs) /\ sigma > zs

\* sigma > zS * 0.95
TooLong(sigma, zs) == ~IsNaN(zs) /\ 20 * sigma > 19 * zs

TestScheme(scheme, s, zs, next) ==
    /\ psi' = s
    /\ zS' = zs
    /\ zSmax' = [zSmax EXCEPT ![scheme] = zs]
    /\ warned' = [warned EXCEPT ![scheme] = TooLong(prov.sigma, zs)]
    /\ wrongHmaxEvals' = EvalCount(s)
    /\ pc' = next
    /\ UNCHANGED <<prov, counter, z0, eps, zH, zHused, H0tested, hmaxWrites,
                   x, y, i, j, HH, acc, passed, particles, gzvars>>

\* psi.H0 = self.H0(self.circumference), then the adaptive quadrature
TestQuad ==
    /\ pc = "test_quad"
    /\ LET s == [psi EXCEPT !.H0 = H0func(prov, circumference(prov))]
       IN TestScheme("quad", s, compute_std_quad(prov, s), "test_cumtrapz")

TestCumtrapz ==
    /\ pc = "test_cumtrapz"
    /\ TestScheme("cumtrapz", psi, compute_std_cumtrapz(prov, psi), "test_romberg")

TestRomberg ==
    /\ pc = "test_romberg"
    /\ TestScheme("romberg", psi, compute_std_romberg(prov, psi), "set_target")

-----------------------------------------------------------------------------
(* RFBucket._set_target_std *)

SetTarget ==
    /\ pc = "set_target"
    /\ psi' = [Hmax |-> HmaxAtExtrema(prov), H0 |-> H0func(prov, prov.sigma)]
    /\ hmaxWrites' = hmaxWrites + 1
    /\ counter' = 0
    /\ z0' = prov.sigma
    /\ eps' = EpsInit
    /\ zH' = prov.sigma
    /\ pc' = "loop"
    /\ UNCHANGED <<prov, warned, zSmax, zS, zHused, H0tested, wrongHmaxEvals,
                   x, y, i, j, HH, acc, passed, particles, gzvars>>

\* while abs(eps) > 1e-4
LoopCondition(e) == Gt(AbsF(e), Tol)

\* the residual taken against the moving guess instead of the target
Residual_AgainstGuess(zs, target, guess) == Sub(zs, guess)

\* eps = zS - z0
Residual(zs, target, guess) == Sub(zs, target)

\* the warning printed without leaving the function
AfterIteration_FallThrough(c) == IF c > MaxIter THEN "converged" ELSE "loop"

\* if counter > 100: ... sys.exit(-1)
AfterIteration(c) == IF c > MaxIter THEN "aborted" ELSE "loop"

Iterate ==
    /\ pc = "loop"
    /\ LoopCondition(eps)
    /\ LET zs == compute_std(prov, psi)
           e  == Residual(zs, z0, zH)
           g  == Sub(zH, HalfOf(e))
       IN /\ zS' = zs
          /\ eps' = e
          /\ zH' = g
          /\ psi' = [psi EXCEPT !.H0 = H0func(prov, g)]
    /\ zHused' = zH
    /\ H0tested' = psi.H0
    /\ wrongHmaxEvals' = EvalCount(psi)
    /\ counter' = counter + 1
    /\ pc' = AfterIteration(counter + 1)
    /\ UNCHANGED <<prov, warned, zSmax, z0, hmaxWrites,
                   x, y, i, j, HH, acc, passed, particles, gzvars>>

\* print "*** Converged!"; return psi.function
Converged ==
    /\ pc = "loop"
    /\ ~LoopCondition(eps)
    /\ pc' = "converged"
    /\ UNCHANGED <<prov, psi, warned, zSmax, counter, z0, eps, zH, zS, zHused,
                   H0tested, wrongHmaxEvals, hmaxWrites,
                   x, y, i, j, HH, acc, passed, particles, gzvars>>

-----------------------------------------------------------------------------
(* RFBucket.generate: the grid and the rejection-sampling loop *)

HasNaN(grid) == \E nd \in DOMAIN grid : grid[nd].nan

\* x, y = zeros(n); i, j = 0, 0; HH = psi(XX, YY); psi_interp = interp2d(...)
\* The proposals of this model land on grid nodes, where the interpolant
\* reproduces HH.  What the spline fit does with a grid of nan is not fixed
\* by the code: it either raises or yields a nan interpolant.
BuildGrid ==
    /\ pc = "converged"
    /\ x' = Zeros(prov.n)
    /\ y' = Zeros(prov.n)
    /\ i' = 0
    /\ j' = 0
    /\ HH' = [nd \in Nodes(prov) |-> PsiFunction(psi, hamiltonian(prov, nd[1], nd[2]))]
    /\ \/ pc' = "sampling"
       \/ HasNaN(HH') /\ pc' = "interp_error"
    /\ UNCHANGED <<prov, psi, warned, zSmax, counter, z0, eps, zH, zS, zHused,
                   H0tested, wrongHmaxEvals, hmaxWrites, acc, passed, particles,
                   gzvars>>

psi_interp(u, v) == HH[<<u, v>>]

\* the loop with a cap on the number of proposals
SamplingContinues_Capped == j < prov.n /\ i < 2

\* while j < particles.n_macroparticles
SamplingContinues == j < prov.n

\* the test with <= in place of <
Accepts_OrEqual(ks, u, v) ==
    LET f == psi_interp(u, v)
    IN ~f.nan /\ f.den > 0 /\ ks * f.den <= 4 * f.num

\* if s < psi_interp(u, v)
Accepts(ks, u, v) == BelowDensity(ks, psi_interp(u, v))

\* x[j] = u; y[j] = v; j += 1
Store(u, v) ==
    /\ x' = [x EXCEPT ![j + 1] = u]
    /\ y' = [y EXCEPT ![j + 1] = v]
    /\ j' = j + 1

Propose(ku, kv, ks) ==
    /\ pc = "sampling"
    /\ SamplingContinues
    /\ LET u == ProposalU(prov, ku)
           v == ProposalV(prov, kv)
       IN /\ i' = i + 1
          /\ passed' = IF BelowDensity(ks, HH[<<u, v>>]) THEN passed + 1 ELSE passed
          /\ IF Accepts(ks, u, v)
             THEN /\ Store(u, v)
                  /\ acc' = Append(acc, [u |-> u, v |-> v, s |-> ks])
             ELSE /\ i - j < MaxRejects
                  /\ UNCHANGED <<x, y, j, acc>>
    /\ UNCHANGED <<prov, pc, psi, warned, zSmax, counter, z0, eps, zH, zS, zHused,
                   H0tested, wrongHmaxEvals, hmaxWrites, HH, particles, gzvars>>

Draw == \E ku \in Levels, kv \in Levels, ks \in Levels : Propose(ku, kv, ks)

AcceptingDraw == Draw /\ j' = j + 1

\* particles.z = x; particles.dp = y; particles.psi = psi
Finish ==
    /\ pc = "sampling"
    /\ ~SamplingContinues
    /\ particles' = [z |-> x, dp |-> y, psi |-> psi]
    /\ pc' = "done"
    /\ UNCHANGED <<prov, psi, warned, zSmax, counter, z0, eps, zH, zS, zHused,
                   H0tested, wrongHmaxEvals, hmaxWrites, x, y, i, j, HH, acc,
                   passed, gzvars>>

Next ==
    \/ TestQuad
    \/ TestCumtrapz
    \/ TestRomberg
    \/ SetTarget
    \/ Iterate
    \/ Converged
    \/ BuildGrid
    \/ Draw
    \/ Finish

Spec == Init /\ [][Next]_vars

\* The loop body runs as long as its condition holds, and the random stream
\* keeps producing proposals the density accepts whenever there are any.
FairSpec == Spec /\ WF_vars(Finish) /\ SF_vars(AcceptingDraw)

-----------------------------------------------------------------------------
(* GaussianZ.generate and GaussianZ._redistribute *)

Randn == {-2, 0, 1}     \* values of random_state.randn

Generators ==
    {[sigma_z |-> 2, sigma_dp |-> 1, is_accepted |-> a] :
        a \in {"None", "is_in_separatrix"}}

\* the acceptance function handed to __init__
is_accepted(z, dp) == z * z <= 4 /\ dp * dp <= 1

Scaled(sigma, r) == [k \in DOMAIN r |-> sigma * r[k]]

\* arr[idx] = values, for a float array arr and an array values: numpy
\* stores a one-element array as its scalar and raises ValueError (setting
\* an array element with a sequence) for any other length
SetItem(arr, idx, values) ==
    IF Len(values) = 1
    THEN [ok |-> TRUE, arr |-> [arr EXCEPT ![idx] = values[1]]]
    ELSE [ok |-> FALSE, arr |-> arr]

InitGZ ==
    /\ RFState(BaseProvider, "idle")
    /\ gen \in Generators
    /\ gpc = "start"
    /\ \E m \in 0..MaxBeam : beam = [n |-> m, z |-> PrevCoords(m), dp |-> PrevCoords(m)]
    /\ gi = 0

\* beam.z = sigma_z * randn(n); beam.dp = sigma_dp * randn(n)
GZGenerate ==
    /\ gpc = "start"
    /\ \E rz \in [1..beam.n -> Randn], rdp \in [1..beam.n -> Randn] :
          beam' = [beam EXCEPT !.z = Scaled(gen.sigma_z, rz),
                               !.dp = Scaled(gen.sigma_dp, rdp)]
    /\ gpc' = IF gen.is_accepted # "None" THEN "redistribute" ELSE "done"
    /\ gi' = 0
    /\ UNCHANGED <<gen, rfvars>>

\* while not self.is_accepted(beam.z[i], beam.dp[i], beam): false, next i
GZNextParticle ==
    /\ gpc = "redistribute"
    /\ gi < beam.n
    /\ is_accepted(beam.z[gi + 1], beam.dp[gi + 1])
    /\ gi' = gi + 1
    /\ UNCHANGED <<gen, gpc, beam, rfvars>>

\* beam.z[i] = sigma_z * randn(n); beam.dp[i] = sigma_dp * randn(n)
GZResample ==
    /\ gpc = "redistribute"
    /\ gi < beam.n
    /\ ~is_accepted(beam.z[gi + 1], beam.dp[gi + 1])
    /\ \E rz \in [1..beam.n -> Randn], rdp \in [1..beam.n -> Randn] :
          LET sz  == SetItem(beam.z, gi + 1, Scaled(gen.sigma_z, rz))
              sdp == SetItem(beam.dp, gi + 1, Scaled(gen.sigma_dp, rdp))
          IN IF ~sz.ok THEN gpc' = "raised" /\ beam' = beam
             ELSE IF ~sdp.ok THEN gpc' = "raised" /\ beam' = [beam EXCEPT !.z = sz.arr]
             ELSE gpc' = gpc /\ beam' = [beam EXCEPT !.z = sz.arr, !.dp = sdp.arr]
    /\ UNCHANGED <<gen, gi, rfvars>>

\* the for loop is exhausted
GZReturn ==
    /\ gpc = "redistribute"
    /\ gi = beam.n
    /\ gpc' = "done"
    /\ UNCHANGED <<gen, beam, gi, rfvars>>

NextGZ ==
    \/ GZGenerate
    \/ GZNextParticle
    \/ GZResample
    \/ GZReturn

SpecGZ == InitGZ /\ [][NextGZ]_vars

-----------------------------------------------------------------------------
(* Claims *)

Returned == pc \in {"converged", "sampling", "interp_error", "done"}

\* C1: _set_target_std aborts only a run whose latest residual is outside the
\* 1e-4 tolerance, and performs at most 101 variance evaluations in its loop.
C1_AbortsOnlyWithoutConvergence ==
    /\ counter <= MaxIter + 1
    /\ pc = "aborted" => ~Lt(AbsF(eps), Tol)

\* C2: on a converged return the rms length computed with the H0 the density
\* holds at that moment is within 1e-4 of sigma_z (the separatrix being
\* non-degenerate).
C2_ReturnedDensityReproducesTarget ==
    (pc = "converged" /\ ~prov.zero_sep) =>
        Lt(AbsF(Sub(compute_std(prov, psi), prov.sigma)), Tol)

\* C3: once the iteration count exceeds 100 the request is aborted: the
\* sampling loop is never entered and particles.z, dp, psi keep the values
\* they had before generate.
C3_AbortLeavesParticlesUntouched ==
    counter > MaxIter =>
        /\ pc = "aborted"
        /\ particles = PrevParticles(prov)
        /\ i = 0 /\ j = 0 /\ acc = <<>> /\ HH = <<>> /\ x = <<>> /\ y = <<>>

C3_Witness ==
    pc = "aborted" /\ counter = MaxIter + 1 /\ Gt(AbsF(eps), Tol)

InBox(p, u, v) ==
    /\ z_sep(p)[1] <= u /\ u <= z_sep(p)[2]
    /\ -p_sep(p) <= v /\ v <= p_sep(p)

C5_SamplesAreAcceptedProposals ==
    /\ pc \in {"sampling", "done"} =>
          /\ j <= i /\ j <= prov.n
          /\ j = passed /\ Len(acc) = j
          /\ \A k \in 1..j :
                /\ x[k] = acc[k].u /\ y[k] = acc[k].v
                /\ InBox(prov, x[k], y[k])
                /\ BelowDensity(acc[k].s, HH[<<x[k], y[k]>>])
    /\ pc = "done" =>
          /\ j = prov.n
          /\ Len(particles.z) = prov.n /\ Len(particles.dp) = prov.n
          /\ particles.z = x /\ particles.dp = y

C5_Witness == pc = "done" /\ prov.n >= 2 /\ i > j /\ x[1] # x[2]

\* C6: each scheme of the feasibility check prints the warning iff
\* sigma > 0.95 * zS_max, and the check always hands over to the iterative
\* solve, warning or not.
ConstructedAtCircumference(p) ==
    [StationaryExponential(p) EXCEPT !.H0 = H0func(p, circumference(p))]

Tested(sc) ==
    \/ sc = "quad" /\ pc # "test_quad"
    \/ sc = "cumtrapz" /\ pc \notin {"test_quad", "test_cumtrapz"}
    \/ sc = "romberg" /\ pc \notin {"test_quad", "test_cumtrapz", "test_romberg"}

C7_ResidualAgainstGuess ==
    (counter > 0 /\ pc \in {"loop", "aborted", "converged"}) =>
        /\ eps = Sub(zS, zHused)
        /\ zH = Sub(zHused, HalfOf(eps))

\* C7 amended: the residual is zS minus the fixed target sigma_z, zS being
\* the rms length for H0(z_guess); z_guess starts at sigma_z and is lowered by
\* half the residual; the loop is left on the test of this same residual.
C7_ResidualAgainstTarget ==
    /\ (pc = "loop" /\ counter = 0) => (zH = prov.sigma /\ psi.H0 = H0func(prov, zH))
    /\ (counter > 0 /\ pc \in {"loop", "aborted", "converged"}) =>
          /\ zS = compute_std(prov, [psi EXCEPT !.H0 = H0func(prov, zHused)])
          /\ eps = Sub(zS, prov.sigma)
          /\ zH = Sub(zHused, HalfOf(eps))
          /\ psi.H0 = H0func(prov, zH)
    /\ pc = "converged" => ~Gt(AbsF(eps), Tol)
    /\ pc = "aborted" => counter > MaxIter

C7_Witness == pc = "converged" /\ counter >= 2 /\ zHused # prov.sigma

\* C8: every variance evaluation is made with Hmax equal to the Hamiltonian
\* at the bucket extrema, never with the constructor's Hmax = H(0, 0), and
\* Hmax is assigned once per matching run.
C8_HmaxSetBeforeEveryEvaluation == wrongHmaxEvals = 0 /\ hmaxWrites <= 1

\* C9: the sampling loop is left only with j = n (no cap on proposals); with
\* n > 0 and a density <= 0 on every proposable point nothing is ever stored
\* and generate never returns; when accepting proposals keep being drawn the
\* loop ends with j = n.
AllNonPositive ==
    \A nd \in DOMAIN HH : ~HH[nd].nan /\ ~BelowDensity(0, HH[nd])

SomeAcceptable ==
    \E nd \in DOMAIN HH : \E ks \in Levels : BelowDensity(ks, HH[nd])

C9_UnboundedRejectionLoop ==
    /\ []((pc \in {"sampling", "done"} /\ prov.n > 0 /\ AllNonPositive)
            => (pc = "sampling" /\ j = 0))
    /\ [][(pc = "sampling" /\ pc' # "sampling") => (j = prov.n /\ pc' = "done")]_vars
    /\ (pc = "sampling" /\ SomeAcceptable) ~> (pc = "done" /\ j = prov.n)

C9_Witness ==
    pc = "sampling" /\ prov.n > 0 /\ AllNonPositive /\ i >= 2 /\ j = 0

\* C10: a rejected particle has its own pair resampled, the others are left
\* alone, and _redistribute goes on until the particle is accepted.
C10_ResamplesOnlyRejectedParticle ==
    [][(gpc = "redistribute" /\ gi < beam.n
          /\ ~is_accepted(beam.z[gi + 1], beam.dp[gi + 1]))
        => /\ gpc' = "redistribute"
           /\ \A k \in 1..beam.n :
                 k # gi + 1 => (beam'.z[k] = beam.z[k] /\ beam'.dp[k] = beam.dp[k])]_vars

====
